---- MODULE Spec2Model ----
(***************************************************************************)
(* Model of the fetch cache (cli/downloader.go) and of the reference       *)
(* resolver and version comparison (newt/newtutil/newtutil.go).            *)
(*                                                                         *)
(* Four specifications share the variables:                                *)
(*   Spec      one Downloader driven by a single caller                    *)
(*   SpecConc  one Downloader, two callers inside GetRepo at once          *)
(*   SpecStr   ParsePackageString / BuildPackageString /                   *)
(*             FindRepoDesignator / ReplaceRepoDesignators                 *)
(*   SpecVer   VerCmp on fixed-width signed integers                       *)
(***************************************************************************)
EXTENDS Integers, Sequences, FiniteSets, TLC

VARIABLES
    Repos,      \* Downloader.Repos : key string -> directory
    nextTmp,    \* number of temp directories ioutil.TempDir has handed out
    calls,      \* history: one record per GetRepo invocation, in order
    last,       \* result of the last top-level operation
    files,      \* destination files: destPath -> <<dir, filePath>> copied there
    pc,         \* SpecConc: per caller position inside GetRepo
    loc,        \* SpecConc: per caller arguments, locals and return values
    writes,     \* SpecConc: callers in the order they executed the map write
    inp,        \* SpecStr / SpecVer: the inputs of the pure function
    outp,       \* SpecStr / SpecVer: its outputs
    phase       \* SpecStr / SpecVer: "in" before the call, "out" after

vars == <<Repos, nextTmp, calls, last, files, pc, loc, writes, inp, outp, phase>>

dlVars   == <<Repos, nextTmp, calls, last, files>>
concVars == <<pc, loc, writes>>
pureVars == <<inp, outp, phase>>

(***************************************************************************)
(* Bounds.                                                                 *)
(***************************************************************************)
MaxCalls == 3

\* Longest repo name and package path tried on the package-string round trip.
MaxPkgLen == 3

\* Longest string handed to ReplaceRepoDesignators.
MaxStrLen == 6

\* Width in bits of the signed integers of a Version (int64 in the source,
\* scaled down; the arithmetic wraps at this width exactly as it does at 64).
IntBits == 8

\* Repository URLs and branches.  "a"+"bc" and "ab"+"c" concatenate to the
\* same string; "a"+"c" and "ab"+"bc" do not collide with anything.
Urls     == {"a", "ab"}
Branches == {"c", "bc"}
FilePaths == {"f"}
DestPaths == {"d"}

(***************************************************************************)
(* cli/downloader.go                                                       *)
(***************************************************************************)

\* Error values.  NoErr is Go's nil error.
NoErr == "nil"
ErrTempDir == "errTempDir"
ErrGit == "errGitClone"
ErrRemoveAll == "errRemoveAll"
ErrCopy == "errCopyFile"

\* The empty path "" ; temp directories are 1, 2, 3, ...
NoDir == 0

\* What the environment does to one call: does ioutil.TempDir succeed, does
\* the git command succeed, does os.RemoveAll(dest/.git/) succeed.
Envs ==
    { [tmp |-> TRUE,  git |-> TRUE,  rm |-> TRUE],
      [tmp |-> FALSE, git |-> TRUE,  rm |-> TRUE],
      [tmp |-> TRUE,  git |-> FALSE, rm |-> TRUE],
      [tmp |-> TRUE,  git |-> TRUE,  rm |-> FALSE] }

\* NewDownloader: dl.Repos = map[string]string{}
NewDownloader == [k \in {} |-> NoDir]

\* The map key of GetRepo: repoUrl+branch, a plain string concatenation.
RepoKey(repoUrl, branch) == repoUrl \o branch

\* ioutil.TempDir("", "newtrepo"): a directory not handed out before.
TempDir(n) == n + 1

\* gitClone: the git command, then the removal of dest/.git/.
gitClone(env) ==
    IF ~env.git THEN ErrGit
    ELSE IF ~env.rm THEN ErrRemoveAll
    ELSE NoErr

\* Mutant of RecordRepo: an existing entry is kept, the write does not
\* replace it.
RecordRepoKeepFirst(repos, key, dir) ==
    IF key \in DOMAIN repos
    THEN repos
    ELSE [k \in (DOMAIN repos) \cup {key} |-> IF k = key THEN dir ELSE repos[k]]

\* Mutant of RecordRepo: the assignment is lost.
RecordRepoDropped(repos, key, dir) == repos

\* dl.Repos[repoUrl+branch] = dir
RecordRepo(repos, key, dir) ==
    [k \in (DOMAIN repos) \cup {key} |-> IF k = key THEN dir ELSE repos[k]]

\* The error GetRepo returns when gitClone failed with cerr (line 62).
CloneFailureResult(cerr) == NoErr

\* Mutant of GetRepo: the key is recorded as soon as the temp directory
\* exists, before the clone is known to have succeeded.
GetRepoRecordFirst(repos, repoUrl, branch, n, env) ==
    LET key == RepoKey(repoUrl, branch) IN
    IF key \in DOMAIN repos
    THEN [dir |-> repos[key], err |-> NoErr, repos |-> repos, hit |-> TRUE,
          tmp |-> FALSE, cloned |-> FALSE, cloneErr |-> NoErr, dest |-> NoDir]
    ELSE IF ~env.tmp
    THEN [dir |-> NoDir, err |-> ErrTempDir, repos |-> repos, hit |-> FALSE,
          tmp |-> FALSE, cloned |-> FALSE, cloneErr |-> NoErr, dest |-> NoDir]
    ELSE LET dir == TempDir(n)
             cerr == gitClone(env)
             recorded == RecordRepo(repos, key, dir) IN
         IF cerr # NoErr
         THEN [dir |-> NoDir, err |-> CloneFailureResult(cerr),
               repos |-> recorded, hit |-> FALSE, tmp |-> TRUE,
               cloned |-> TRUE, cloneErr |-> cerr, dest |-> dir]
         ELSE [dir |-> dir, err |-> NoErr, repos |-> recorded,
               hit |-> FALSE, tmp |-> TRUE, cloned |-> TRUE,
               cloneErr |-> NoErr, dest |-> dir]

\* GetRepo.  The result carries the returned (dir, err), the map afterwards
\* and what happened on the way: hit (served from the map), tmp (a temp
\* directory was allocated), cloned (gitClone was invoked), cloneErr (its
\* result).
GetRepo(repos, repoUrl, branch, n, env) ==
    LET key == RepoKey(repoUrl, branch) IN
    IF key \in DOMAIN repos
    THEN [dir |-> repos[key], err |-> NoErr, repos |-> repos, hit |-> TRUE,
          tmp |-> FALSE, cloned |-> FALSE, cloneErr |-> NoErr, dest |-> NoDir]
    ELSE IF ~env.tmp
    THEN [dir |-> NoDir, err |-> ErrTempDir, repos |-> repos, hit |-> FALSE,
          tmp |-> FALSE, cloned |-> FALSE, cloneErr |-> NoErr, dest |-> NoDir]
    ELSE LET dir == TempDir(n)
             cerr == gitClone(env) IN
         IF cerr # NoErr
         THEN [dir |-> NoDir, err |-> CloneFailureResult(cerr), repos |-> repos,
               hit |-> FALSE, tmp |-> TRUE, cloned |-> TRUE, cloneErr |-> cerr,
               dest |-> dir]
         ELSE [dir |-> dir, err |-> NoErr, repos |-> RecordRepo(repos, key, dir),
               hit |-> FALSE, tmp |-> TRUE, cloned |-> TRUE, cloneErr |-> NoErr,
               dest |-> dir]

\* CopyFile(repoDir+"/"+filePath, destPath): the source is the pair
\* <<repoDir, filePath>>; whether the file exists there is the environment's
\* choice copyOk.
CopyFile(fs, srcDir, filePath, destPath, copyOk) ==
    IF copyOk
    THEN [err |-> NoErr,
          files |-> [d \in (DOMAIN fs) \cup {destPath} |->
                        IF d = destPath THEN <<srcDir, filePath>> ELSE fs[d]]]
    ELSE [err |-> ErrCopy, files |-> fs]

\* DownloadFile.
DownloadFile(repos, fs, repoUrl, branch, filePath, destPath, n, env, copyOk) ==
    LET g == GetRepo(repos, repoUrl, branch, n, env) IN
    IF g.err # NoErr
    THEN [err |-> g.err, get |-> g, copyAttempted |-> FALSE, copySrc |-> NoDir,
          files |-> fs]
    ELSE LET c == CopyFile(fs, g.dir, filePath, destPath, copyOk) IN
         [err |-> c.err, get |-> g, copyAttempted |-> TRUE, copySrc |-> g.dir,
          files |-> c.files]

\* One history record per GetRepo invocation.
CallRecord(repoUrl, branch, g, before) ==
    [url |-> repoUrl, branch |-> branch, dir |-> g.dir, err |-> g.err,
     hit |-> g.hit, cloned |-> g.cloned, cloneErr |-> g.cloneErr,
     tmp |-> g.tmp, dest |-> g.dest, cachedBefore |-> before]

NoLast ==
    [op |-> "none", err |-> NoErr, dir |-> NoDir, cloned |-> FALSE,
     cloneErr |-> NoErr, copyAttempted |-> FALSE, copySrc |-> NoDir,
     destWritten |-> FALSE]

pureIdle == <<>>

InitDl ==
    /\ Repos = NewDownloader
    /\ nextTmp = 0
    /\ calls = <<>>
    /\ last = NoLast
    /\ files = [d \in {} |-> <<>>]

Init ==
    /\ InitDl
    /\ pc = <<>> /\ loc = <<>> /\ writes = <<>>
    /\ inp = pureIdle /\ outp = pureIdle /\ phase = "idle"

\* A caller invokes GetRepo(repoUrl, branch).
CallGetRepo ==
    /\ Len(calls) < MaxCalls
    /\ \E repoUrl \in Urls, branch \in Branches, env \in Envs :
         LET g == GetRepo(Repos, repoUrl, branch, nextTmp, env) IN
         /\ Repos' = g.repos
         /\ nextTmp' = IF g.tmp THEN nextTmp + 1 ELSE nextTmp
         /\ calls' = Append(calls,
                CallRecord(repoUrl, branch, g,
                           RepoKey(repoUrl, branch) \in DOMAIN Repos))
         /\ last' = [op |-> "GetRepo", err |-> g.err, dir |-> g.dir,
                     cloned |-> g.cloned, cloneErr |-> g.cloneErr,
                     copyAttempted |-> FALSE, copySrc |-> NoDir,
                     destWritten |-> FALSE]
         /\ files' = files
    /\ UNCHANGED <<concVars, pureVars>>

\* A caller invokes DownloadFile(repoUrl, branch, filePath, destPath).
CallDownloadFile ==
    /\ Len(calls) < MaxCalls
    /\ \E repoUrl \in Urls, branch \in Branches, env \in Envs,
          filePath \in FilePaths, destPath \in DestPaths, copyOk \in BOOLEAN :
         LET r == DownloadFile(Repos, files, repoUrl, branch, filePath,
                               destPath, nextTmp, env, copyOk)
             g == r.get IN
         /\ Repos' = g.repos
         /\ nextTmp' = IF g.tmp THEN nextTmp + 1 ELSE nextTmp
         /\ calls' = Append(calls,
                CallRecord(repoUrl, branch, g,
                           RepoKey(repoUrl, branch) \in DOMAIN Repos))
         /\ last' = [op |-> "DownloadFile", err |-> r.err, dir |-> g.dir,
                     cloned |-> g.cloned, cloneErr |-> g.cloneErr,
                     copyAttempted |-> r.copyAttempted, copySrc |-> r.copySrc,
                     destWritten |-> (r.files # files)]
         /\ files' = r.files
    /\ UNCHANGED <<concVars, pureVars>>

Next ==
    \/ CallGetRepo
    \/ CallDownloadFile

Spec == Init /\ [][Next]_vars

(***************************************************************************)
(* Claims about the Downloader driven by a single caller (Spec).           *)
(***************************************************************************)

\* The clone of invocation c failed: gitClone was invoked and returned an error.
CloneFailed(c) == c.cloned /\ c.cloneErr # NoErr

\* The clone of invocation c succeeded.
CloneSucceeded(c) == c.cloned /\ c.cloneErr = NoErr

SameArgs(c, d) == c.url = d.url /\ c.branch = d.branch

\* C1: whenever the clone step of a GetRepo invocation fails (git command or
\* .git removal), that invocation returns a non-nil error.
C1_CloneFailureReturnsError ==
    \A i \in 1..Len(calls) : CloneFailed(calls[i]) => calls[i].err # NoErr

\* C2: a DownloadFile whose clone fails returns an error, attempts no copy
\* and leaves destPath alone; a copy is only ever attempted from inside a
\* successfully cloned checkout directory.
C2_DownloadFileFailsWithoutCopy ==
    last.op = "DownloadFile" =>
        /\ (last.cloned /\ last.cloneErr # NoErr) =>
              /\ last.err # NoErr
              /\ ~last.copyAttempted
              /\ ~last.destWritten
        /\ last.copyAttempted =>
              \E i \in 1..Len(calls) :
                  CloneSucceeded(calls[i]) /\ calls[i].dest = last.copySrc

\* Number of clones invoked by invocation c.
Clones(c) == IF c.cloned THEN 1 ELSE 0

\* C3 as stated: two consecutive GetRepo invocations with identical
\* arguments invoke the clone exactly once in total and return the same path.
C3_TwoCallsCloneOnce ==
    \A i \in 1..(Len(calls) - 1) :
        SameArgs(calls[i], calls[i + 1]) =>
            /\ Clones(calls[i]) + Clones(calls[i + 1]) = 1
            /\ calls[i].dir = calls[i + 1].dir

\* C3 amended: two consecutive GetRepo invocations with identical arguments,
\* the first of which finds the key uncached and whose temp-dir allocation
\* and clone succeed, invoke the clone exactly once in total, and both
\* return the identical (non-empty) cached path.
C3_TwoCallsCloneOnceAfterSuccess ==
    \A i \in 1..(Len(calls) - 1) :
        ( /\ SameArgs(calls[i], calls[i + 1])
          /\ ~calls[i].cachedBefore
          /\ CloneSucceeded(calls[i]) ) =>
            /\ Clones(calls[i]) + Clones(calls[i + 1]) = 1
            /\ calls[i + 1].hit
            /\ calls[i].dir = calls[i + 1].dir
            /\ calls[i].dir # NoDir

C3_Witness ==
    \E i \in 1..(Len(calls) - 1) :
        /\ SameArgs(calls[i], calls[i + 1])
        /\ ~calls[i].cachedBefore
        /\ CloneSucceeded(calls[i])
        /\ calls[i + 1].hit

\* Every key of Repos was recorded by an invocation whose clone succeeded,
\* with the directory of that clone.
KeysRecordedOnSuccess ==
    \A k \in DOMAIN Repos :
        \E i \in 1..Len(calls) :
            /\ RepoKey(calls[i].url, calls[i].branch) = k
            /\ CloneSucceeded(calls[i])
            /\ calls[i].dest = Repos[k]

\* The invocation just appended to the history failed in its temp-dir
\* allocation or in its clone.
JustFailed ==
    /\ Len(calls') = Len(calls) + 1
    /\ LET c == calls'[Len(calls')] IN
         ~c.hit /\ (~c.tmp \/ CloneFailed(c))

\* C4: every key present in Repos was recorded by a GetRepo invocation whose
\* clone succeeded, and an invocation whose temp-dir allocation or clone
\* fails leaves Repos unchanged.
C4_NoPoisonedCache ==
    /\ []KeysRecordedOnSuccess
    /\ [][JustFailed => Repos' = Repos]_vars

C4_Witness ==
    /\ Len(calls) >= 2
    /\ CloneSucceeded(calls[1])
    /\ CloneFailed(calls[2])
    /\ ~SameArgs(calls[1], calls[2])
    /\ DOMAIN Repos = {RepoKey(calls[1].url, calls[1].branch)}

\* Invocation i asks for a pair no earlier invocation asked for.
NewPair(i) == \A j \in 1..(i - 1) : ~SameArgs(calls[i], calls[j])

\* C10: an invocation for a pair that differs from every previously
\* requested pair is never served from the cache, and two successfully
\* fetched distinct pairs are held in distinct directories.
C10_DistinctPairsNeverAlias ==
    /\ \A i \in 1..Len(calls) : NewPair(i) => ~calls[i].hit
    /\ \A i, j \in 1..Len(calls) :
          ( /\ ~SameArgs(calls[i], calls[j])
            /\ calls[i].err = NoErr /\ calls[i].dir # NoDir
            /\ calls[j].err = NoErr /\ calls[j].dir # NoDir ) =>
              calls[i].dir # calls[j].dir

(***************************************************************************)
(* SpecConc: two callers run GetRepo on the same Downloader.  GetRepo holds *)
(* no lock, so its cache lookup (line 50), temp-dir allocation (line 55),  *)
(* clone (line 61) and map write (line 65) are separate steps that         *)
(* interleave with the other caller's.  Each step is taken atomically: the *)
(* map accesses of the two callers never overlap in time.                  *)
(***************************************************************************)
Callers == {1, 2}

CallerStart(repoUrl, branch) ==
    [url |-> repoUrl, branch |-> branch, dir |-> NoDir, ret |-> NoDir,
     err |-> NoErr, missed |-> FALSE, cloneErr |-> NoErr]

InitConc ==
    /\ Repos = NewDownloader
    /\ nextTmp = 0
    /\ calls = <<>>
    /\ last = NoLast
    /\ files = [d \in {} |-> <<>>]
    /\ pc = [p \in Callers |-> "lookup"]
    /\ loc \in [Callers -> {CallerStart(u, b) : u \in Urls, b \in Branches}]
    /\ writes = <<>>
    /\ inp = pureIdle /\ outp = pureIdle /\ phase = "idle"

\* dir, ok := dl.Repos[repoUrl+branch]; if ok { return dir, nil }
Lookup(p) ==
    /\ pc[p] = "lookup"
    /\ LET key == RepoKey(loc[p].url, loc[p].branch) IN
         IF key \in DOMAIN Repos
         THEN /\ loc' = [loc EXCEPT ![p].ret = Repos[key], ![p].err = NoErr]
              /\ pc' = [pc EXCEPT ![p] = "done"]
         ELSE /\ loc' = [loc EXCEPT ![p].missed = TRUE]
              /\ pc' = [pc EXCEPT ![p] = "tempdir"]
    /\ UNCHANGED <<Repos, nextTmp, calls, last, files, writes, pureVars>>

\* dir, err := ioutil.TempDir("", "newtrepo"); if err != nil { return "", err }
AllocTempDir(p) ==
    /\ pc[p] = "tempdir"
    /\ \E ok \in BOOLEAN :
         IF ok
         THEN /\ loc' = [loc EXCEPT ![p].dir = TempDir(nextTmp)]
              /\ nextTmp' = nextTmp + 1
              /\ pc' = [pc EXCEPT ![p] = "clone"]
         ELSE /\ loc' = [loc EXCEPT ![p].ret = NoDir, ![p].err = ErrTempDir]
              /\ nextTmp' = nextTmp
              /\ pc' = [pc EXCEPT ![p] = "done"]
    /\ UNCHANGED <<Repos, calls, last, files, writes, pureVars>>

\* if err := dl.gitClone(repoUrl, branch, dir); err != nil { return "", nil }
\* Every clone invocation is logged in calls.
Clone(p) ==
    /\ pc[p] = "clone"
    /\ \E env \in {e \in Envs : e.tmp} :
         LET cerr == gitClone(env) IN
         /\ calls' = Append(calls, [caller |-> p, url |-> loc[p].url,
                                    branch |-> loc[p].branch,
                                    dest |-> loc[p].dir, cloneErr |-> cerr])
         /\ IF cerr # NoErr
            THEN /\ loc' = [loc EXCEPT ![p].ret = NoDir,
                                       ![p].err = CloneFailureResult(cerr),
                                       ![p].cloneErr = cerr]
                 /\ pc' = [pc EXCEPT ![p] = "done"]
            ELSE /\ loc' = loc
                 /\ pc' = [pc EXCEPT ![p] = "record"]
    /\ UNCHANGED <<Repos, nextTmp, last, files, writes, pureVars>>

\* dl.Repos[repoUrl+branch] = dir; return dir, nil
Record(p) ==
    /\ pc[p] = "record"
    /\ Repos' = RecordRepo(Repos, RepoKey(loc[p].url, loc[p].branch), loc[p].dir)
    /\ writes' = Append(writes, p)
    /\ loc' = [loc EXCEPT ![p].ret = loc[p].dir, ![p].err = NoErr]
    /\ pc' = [pc EXCEPT ![p] = "done"]
    /\ UNCHANGED <<nextTmp, calls, last, files, pureVars>>

NextConc ==
    \E p \in Callers :
        \/ Lookup(p)
        \/ AllocTempDir(p)
        \/ Clone(p)
        \/ Record(p)

SpecConc == InitConc /\ [][NextConc]_vars

\* Both callers asked for the same pair, both found the cache empty for it,
\* both clones succeeded and both calls have returned.
BothMissedAndCloned ==
    /\ loc[1].url = loc[2].url /\ loc[1].branch = loc[2].branch
    /\ pc[1] = "done" /\ pc[2] = "done"
    /\ loc[1].missed /\ loc[2].missed
    /\ Len(writes) = 2

\* C9: when two callers run GetRepo concurrently for the same pair and both
\* pass the cache lookup before either writes the map, the clone is invoked
\* twice into two different temp directories, the callers receive different
\* paths, and the later map write replaces the earlier cached path.
C9_RaceClonesTwice ==
    BothMissedAndCloned =>
        /\ Len(calls) = 2
        /\ calls[1].dest # calls[2].dest
        /\ calls[1].url = loc[1].url /\ calls[2].url = loc[1].url
        /\ calls[1].branch = loc[1].branch /\ calls[2].branch = loc[1].branch
        /\ loc[1].ret # loc[2].ret
        /\ Repos[RepoKey(loc[1].url, loc[1].branch)] = loc[writes[2]].ret
        /\ Repos[RepoKey(loc[1].url, loc[1].branch)] # loc[writes[1]].ret

C9_Witness ==
    /\ BothMissedAndCloned
    /\ Len(calls) = 2
    /\ loc[1].ret # loc[2].ret
    /\ loc[1].ret # NoDir /\ loc[2].ret # NoDir

(***************************************************************************)
(* newt/newtutil/newtutil.go : strings                                     *)
(*                                                                         *)
(* A Go string is a sequence of one-character strings.  Go indexes from 0; *)
(* Index, GoSlice and the results of FindRepoDesignator keep Go's offsets. *)
(***************************************************************************)
Chars == {"@", "/", "a"}

Strs(n) == UNION {[1..k -> Chars] : k \in 0..n}

\* strings.Index(s, c) for a one-character c: first offset of c, or -1.
Index(s, c) ==
    IF \E i \in 1..Len(s) : s[i] = c
    THEN (CHOOSE i \in 1..Len(s) : s[i] = c /\ \A k \in 1..(i - 1) : s[k] # c) - 1
    ELSE -1

\* s[lo:hi] is in range (otherwise the Go runtime panics).
SliceOk(s, lo, hi) == 0 <= lo /\ lo <= hi /\ hi <= Len(s)

\* s[lo:hi]
GoSlice(s, lo, hi) == SubSeq(s, lo + 1, hi)

HasPrefix(s, prefix) ==
    Len(s) >= Len(prefix) /\ SubSeq(s, 1, Len(prefix)) = prefix

HasSuffix(s, suffix) ==
    Len(s) >= Len(suffix) /\ SubSeq(s, Len(s) - Len(suffix) + 1, Len(s)) = suffix

TrimPrefix(s, prefix) ==
    IF HasPrefix(s, prefix) THEN SubSeq(s, Len(prefix) + 1, Len(s)) ELSE s

TrimSuffix(s, suffix) ==
    IF HasSuffix(s, suffix) THEN SubSeq(s, 1, Len(s) - Len(suffix)) ELSE s

\* Mutant of SplitN2: strings.Split, which cuts at every "/".
RECURSIVE SplitAll(_)
SplitAll(s) ==
    LET i == Index(s, "/") IN
    IF i = -1 THEN <<s>>
    ELSE <<GoSlice(s, 0, i)>> \o SplitAll(GoSlice(s, i + 1, Len(s)))

\* strings.SplitN(s, "/", 2): at most two parts, cut at the first "/".
SplitN2(s) ==
    LET i == Index(s, "/") IN
    IF i = -1 THEN <<s>>
    ELSE <<GoSlice(s, 0, i), GoSlice(s, i + 1, Len(s))>>

ErrInvalidPkg == "errInvalidPackageString"

ParsePackageString(pkgStr0) ==
    LET pkgStr == TrimSuffix(pkgStr0, <<"/">>) IN
    IF HasPrefix(pkgStr, <<"@">>)
    THEN LET nameParts == SplitN2(GoSlice(pkgStr, 1, Len(pkgStr))) IN
         IF Len(nameParts) = 1
         THEN [repo |-> <<>>, pkg |-> <<>>, err |-> ErrInvalidPkg]
         ELSE [repo |-> nameParts[1], pkg |-> nameParts[2], err |-> NoErr]
    ELSE [repo |-> <<>>, pkg |-> pkgStr, err |-> NoErr]

BuildPackageString(repoName, pkgName) ==
    IF repoName # <<>>
    THEN <<"@">> \o repoName \o <<"/">> \o pkgName
    ELSE pkgName

\* Mutant of FindRepoDesignator: the "/" is searched in the whole string, so
\* the second result is an absolute offset.
FindRepoDesignatorAbsolute(s) ==
    LET start == Index(s, "@") IN
    IF start = -1 THEN <<-1, -1>>
    ELSE LET len == Index(s, "/") IN
         IF len = -1 THEN <<-1, -1>> ELSE <<start, len>>

FindRepoDesignator(s) ==
    LET start == Index(s, "@") IN
    IF start = -1 THEN <<-1, -1>>
    ELSE LET len == Index(GoSlice(s, start, Len(s)), "/") IN
         IF len = -1 THEN <<-1, -1>> ELSE <<start, len>>

\* The project collaborator (package interfaces, project): its root path
\* and the absolute paths of the repos it knows.  A repo may lie under the
\* root, be the root itself, or lie elsewhere.
Projects ==
    { [path |-> <<"/", "p">>,
       repos |-> [n \in {<<"a">>} |-> <<"/", "p", "/", "r">>]],
      [path |-> <<"/", "p">>,
       repos |-> [n \in {<<"a">>, <<"a", "a">>} |->
                    IF n = <<"a">> THEN <<"/", "p", "/", "a">>
                    ELSE <<"/", "p", "/", "r", "/", "a">>]],
      [path |-> <<"/", "p">>,
       repos |-> [n \in {<<"a">>, <<"a", "a">>} |->
                    IF n = <<"a">> THEN <<"/", "p">>
                    ELSE <<"/", "q", "/", "r">>]] }

\* proj.FindRepoPath(repoName): "" when the repo is unknown.
FindRepoPath(proj, repoName) ==
    IF repoName \in DOMAIN proj.repos THEN proj.repos[repoName] ELSE <<>>

\* proj.Path()
ProjPath(proj) == proj.path

\* Mutant of RelRepoPath: the project base is not trimmed.
RelRepoPathAbsolute(repoPath, projPath) == repoPath

\* relRepoPath := strings.TrimPrefix(repoPath, proj.Path()+"/")
RelRepoPath(repoPath, projPath) == TrimPrefix(repoPath, projPath \o <<"/">>)

Panicked(s) == [out |-> s, replaced |-> FALSE, panic |-> TRUE]

ReplaceRepoDesignators(s, proj) ==
    LET d == FindRepoDesignator(s)
        start == d[1]
        len == d[2] IN
    IF start = -1 THEN [out |-> s, replaced |-> FALSE, panic |-> FALSE]
    ELSE IF ~SliceOk(s, start + 1, start + len) THEN Panicked(s)
    ELSE LET repoName == GoSlice(s, start + 1, start + len)
             repoPath == FindRepoPath(proj, repoName) IN
         IF repoPath = <<>> THEN [out |-> s, replaced |-> FALSE, panic |-> FALSE]
         ELSE LET relRepoPath == RelRepoPath(repoPath, ProjPath(proj)) IN
              IF ~SliceOk(s, 0, start) \/ ~SliceOk(s, start + len, Len(s))
              THEN Panicked(s)
              ELSE [out |-> GoSlice(s, 0, start) \o relRepoPath
                              \o GoSlice(s, start + len, Len(s)),
                    replaced |-> TRUE, panic |-> FALSE]

InitStr ==
    /\ InitDl
    /\ pc = <<>> /\ loc = <<>> /\ writes = <<>>
    /\ inp \in {[fn |-> "roundtrip", r |-> r, p |-> p] :
                    r \in Strs(MaxPkgLen), p \in Strs(MaxPkgLen)}
               \cup {[fn |-> "replace", s |-> s, proj |-> proj] :
                    s \in Strs(MaxStrLen), proj \in Projects}
    /\ outp = pureIdle
    /\ phase = "in"

\* ParsePackageString(BuildPackageString(r, p))
RoundTrip ==
    /\ phase = "in" /\ inp.fn = "roundtrip"
    /\ outp' = ParsePackageString(BuildPackageString(inp.r, inp.p))
    /\ phase' = "out"
    /\ UNCHANGED <<inp, dlVars, concVars>>

\* ReplaceRepoDesignators(s) in project proj
Replace ==
    /\ phase = "in" /\ inp.fn = "replace"
    /\ outp' = ReplaceRepoDesignators(inp.s, inp.proj)
    /\ phase' = "out"
    /\ UNCHANGED <<inp, dlVars, concVars>>

NextStr ==
    \/ RoundTrip
    \/ Replace

SpecStr == InitStr /\ [][NextStr]_vars

RoundTripDone == phase = "out" /\ inp.fn = "roundtrip"
ReplaceDone == phase = "out" /\ inp.fn = "replace"

RoundTrips == outp.err = NoErr /\ outp.repo = inp.r /\ outp.pkg = inp.p

\* C5 as stated: the round trip returns (r, p) with no error for every
\* non-empty p and any r.
C5_RoundTrip ==
    (RoundTripDone /\ inp.p # <<>>) => RoundTrips

Contains(s, c) == \E i \in 1..Len(s) : s[i] = c

\* The inputs on which the round trip is exact.
RoundTripInput(r, p) ==
    /\ p # <<>>
    /\ p[Len(p)] # "/"
    /\ ~Contains(r, "/")
    /\ (r = <<>> => p[1] # "@")

\* C5 amended: the round trip returns (r, p) with no error for every
\* non-empty p that does not end in "/", and every r without a "/", where p
\* does not start with "@" when r is empty.
C5_RoundTripValidInputs ==
    (RoundTripDone /\ RoundTripInput(inp.r, inp.p)) => RoundTrips

\* The amended precondition is exact: for non-empty p the round trip
\* succeeds on no other input.
C5_RoundTripExact ==
    (RoundTripDone /\ inp.p # <<>>) => (RoundTrips <=> RoundTripInput(inp.r, inp.p))

C5_Witness ==
    /\ RoundTripDone
    /\ inp.r = <<"a">> /\ inp.p = <<"a", "/", "a">>
    /\ outp.repo = <<"a">> /\ outp.pkg = <<"a", "/", "a">> /\ outp.err = NoErr

\* Positions (from 1) of the first "@" of s and of the first "/" at or
\* after it, stated without the offsets of FindRepoDesignator.
HasAt(s) == Contains(s, "@")
FirstAt(s) == CHOOSE i \in 1..Len(s) : s[i] = "@" /\ \A k \in 1..(i - 1) : s[k] # "@"
HasSlashAfter(s) == HasAt(s) /\ \E j \in FirstAt(s)..Len(s) : s[j] = "/"
SlashAfter(s) ==
    CHOOSE j \in FirstAt(s)..Len(s) :
        s[j] = "/" /\ \A k \in FirstAt(s)..(j - 1) : s[k] # "/"
NamedRepo(s) == SubSeq(s, FirstAt(s) + 1, SlashAfter(s) - 1)
KnownRepo(s, proj) == HasSlashAfter(s) /\ NamedRepo(s) \in DOMAIN proj.repos

\* rel is path relative to root: root + "/" + rel = path.
IsRelativeTo(rel, path, root) == root \o <<"/">> \o rel = path

\* The result is (text before the first "@") + rel + (text from the "/" on),
\* with wasReplaced = true.
SplicedWith(rel) ==
    LET s == inp.s
        before == SubSeq(s, 1, FirstAt(s) - 1)
        after == SubSeq(s, SlashAfter(s), Len(s))
    IN  /\ ~outp.panic
        /\ outp.replaced
        /\ outp.out = before \o rel \o after

\* What stands in the result between the text before the "@" and the text
\* from the "/" on.
Substituted ==
    SubSeq(outp.out, FirstAt(inp.s),
           Len(outp.out) - (Len(inp.s) - SlashAfter(inp.s) + 1))

NamedRepoPath == inp.proj.repos[NamedRepo(inp.s)]

\* C6 as stated: when a designator is located and the project knows the
\* named repo, the result is (text before the first "@") + rel + (text from
\* the "/" on) with wasReplaced = true, rel being the repo's path relative
\* to the project root and not its absolute path.
C6_ReplaceSplicesRelativePath ==
    (ReplaceDone /\ KnownRepo(inp.s, inp.proj)) =>
        /\ SplicedWith(Substituted)
        /\ IsRelativeTo(Substituted, NamedRepoPath, inp.proj.path)
        /\ Substituted # NamedRepoPath

\* path lies under root: it is root + "/" + something.
UnderRoot(path, root) == HasPrefix(path, root \o <<"/">>)

\* C6 amended: as C6, where rel is the repo's path relative to the project
\* root (and not its absolute path) when that path starts with the project
\* root and "/", and is the repo's path as the project gives it otherwise.
C6_ReplaceSplicesTrimmedPath ==
    (ReplaceDone /\ KnownRepo(inp.s, inp.proj)) =>
        /\ SplicedWith(Substituted)
        /\ IF UnderRoot(NamedRepoPath, inp.proj.path)
           THEN /\ IsRelativeTo(Substituted, NamedRepoPath, inp.proj.path)
                /\ Substituted # NamedRepoPath
           ELSE Substituted = NamedRepoPath

\* A string with two designators, the repo under the project root: only the
\* first is substituted, by the relative path.
C6_Witness ==
    /\ ReplaceDone
    /\ inp.s = <<"a", "@", "a", "/", "@", "a">>
    /\ inp.proj.repos[<<"a">>] = <<"/", "p", "/", "r">>
    /\ outp.replaced
    /\ outp.out = <<"a", "r", "/", "@", "a">>

\* C7: ReplaceRepoDesignators never fails; with no "@", with no "/" at or
\* after the first "@", or with a repo the project does not know, it returns
\* the input unchanged and wasReplaced = false.
C7_ReplaceNeverFails ==
    ReplaceDone =>
        /\ ~outp.panic
        /\ (~HasAt(inp.s) \/ ~HasSlashAfter(inp.s) \/ ~KnownRepo(inp.s, inp.proj)) =>
              (outp.out = inp.s /\ ~outp.replaced)

\* A "/" before the "@", and a repo name the project does not know.
C7_Witness ==
    /\ ReplaceDone
    /\ inp.s = <<"/", "@", "a", "a", "/", "a">>
    /\ ~KnownRepo(inp.s, inp.proj)
    /\ ~outp.panic /\ ~outp.replaced /\ outp.out = inp.s

(***************************************************************************)
(* newt/newtutil/newtutil.go : Version and VerCmp                          *)
(***************************************************************************)
MinInt == -(2 ^ (IntBits - 1))
MaxInt == 2 ^ (IntBits - 1) - 1

\* The value of a signed IntBits-bit integer after an arithmetic result x
\* wraps around (Go's defined behaviour on overflow).
Wrap(x) == ((x - MinInt) % (2 ^ IntBits)) + MinInt

\* v1 - v2 on the Version's integer type.
Sub(x, y) == Wrap(x - y)

FieldVals == {MinInt, -1, 0, 1, MaxInt}

\* type Version struct { Major, Minor, Revision int64 }
Version == [Major : FieldVals, Minor : FieldVals, Revision : FieldVals]

VerCmp(v1, v2) ==
    IF Sub(v1.Major, v2.Major) # 0 THEN Sub(v1.Major, v2.Major)
    ELSE IF Sub(v1.Minor, v2.Minor) # 0 THEN Sub(v1.Minor, v2.Minor)
    ELSE IF Sub(v1.Revision, v2.Revision) # 0 THEN Sub(v1.Revision, v2.Revision)
    ELSE 0

InitVer ==
    /\ InitDl
    /\ pc = <<>> /\ loc = <<>> /\ writes = <<>>
    /\ inp \in [a : Version, b : Version]
    /\ outp = pureIdle
    /\ phase = "in"

\* VerCmp(a, b), VerCmp(b, a) and VerCmp(a, a)
Compare ==
    /\ phase = "in"
    /\ outp' = [ab |-> VerCmp(inp.a, inp.b), ba |-> VerCmp(inp.b, inp.a),
                aa |-> VerCmp(inp.a, inp.a)]
    /\ phase' = "out"
    /\ UNCHANGED <<inp, dlVars, concVars>>

NextVer == Compare

SpecVer == InitVer /\ [][NextVer]_vars

Sign(x) == IF x < 0 THEN -1 ELSE IF x > 0 THEN 1 ELSE 0

\* Sign of the lexicographic order on (Major, Minor, Revision).
LexSign(a, b) ==
    IF a.Major # b.Major THEN (IF a.Major < b.Major THEN -1 ELSE 1)
    ELSE IF a.Minor # b.Minor THEN (IF a.Minor < b.Minor THEN -1 ELSE 1)
    ELSE IF a.Revision # b.Revision THEN (IF a.Revision < b.Revision THEN -1 ELSE 1)
    ELSE 0

\* C8: VerCmp(v, v) = 0, the sign of VerCmp(a, b) is the opposite of the
\* sign of VerCmp(b, a), and it agrees with the lexicographic order.
C8_VerCmpAntisymmetric ==
    phase = "out" =>
        /\ outp.aa = 0
        /\ Sign(outp.ab) = -Sign(outp.ba)
        /\ Sign(outp.ab) = LexSign(inp.a, inp.b)

====
